---------------------------- MODULE Spec2Model ----------------------------
(***************************************************************************)
(* A model of smithy (src/src/lib.rs): Document::from_str, the             *)
(* SmithyPlugin trait with its default methods, and Smithy::build over a   *)
(* small file system.                                                      *)
(*                                                                         *)
(* Text is a sequence of one-character strings.  A file-system location is *)
(* the sequence of directory names from the root; a PathBuf is a record    *)
(* [abs, comps], comps possibly holding "..".                              *)
(***************************************************************************)
EXTENDS Integers, Sequences, FiniteSets, TLC

VARIABLES
    text,        \* Document::from_str: the argument `text`
    parsed,      \* Document::from_str: what the call produced
    yaml,        \* YamlLoader::load_from_str: its answer for each front-matter text
    fs,          \* the file system: [dirs, files]
    readdirRev,  \* the order in which the file system enumerates a directory
    plugins,     \* Smithy.plugins
    pc,          \* position of the caller in Smithy::build
    entries,     \* build: the WalkDir entries still to visit
    documents,   \* build: the local `documents`
    pi,          \* build: number of plugins the loop at line 55 has finished
    result,      \* build: what the call produced
    fs0,         \* history: the file system when the current build() started
    loaded,      \* history: `documents` when the loop at line 40 ended
    handed,      \* history: `documents` when the loop at line 61 started
    calls,       \* history: the plugin.process calls of the current build()
    last         \* history: the previous build(): its input, output and result

vars == <<text, parsed, yaml, fs, readdirRev, plugins, pc, entries, documents,
          pi, result, fs0, loaded, handed, calls, last>>

buildVars == <<fs, readdirRev, plugins, pc, entries, documents, pi, result,
               fs0, loaded, handed, calls, last>>

-----------------------------------------------------------------------------
(* Bounds *)

MaxTokens == 5
MaxPlugins == 2

-----------------------------------------------------------------------------
(* Sequences *)

RECURSIVE Concat(_)
Concat(ss) == IF ss = <<>> THEN <<>> ELSE Head(ss) \o Concat(Tail(ss))

Range(s) == {s[i] : i \in 1..Len(s)}

-----------------------------------------------------------------------------
(* Document::from_str, lib.rs:94-106 *)

\* The pattern of text.split("---\n"), lib.rs:96.
Delim == <<"-", "-", "-", "\n">>

\* char::is_whitespace over the characters of the model (str::trim, lib.rs:100).
IsWhitespace(c) == c \in {" ", "\n"}

\* Is there a match of the pattern starting at index i of t?
MatchAt(t, i) ==
    /\ i + Len(Delim) - 1 <= Len(t)
    /\ SubSeq(t, i, i + Len(Delim) - 1) = Delim

\* str::split: the pieces between the successive non-overlapping matches,
\* found left to right; `i` scans, `start` is where the current piece began.
RECURSIVE SplitFrom(_, _, _)
SplitFrom(t, i, start) ==
    IF i > Len(t)
    THEN <<SubSeq(t, start, Len(t))>>
    ELSE IF MatchAt(t, i)
         THEN <<SubSeq(t, start, i - 1)>>
                  \o SplitFrom(t, i + Len(Delim), i + Len(Delim))
         ELSE SplitFrom(t, i + 1, start)

Split(t) == SplitFrom(t, 1, 1)

\* [&str]::join, lib.rs:100.
RECURSIVE Join(_, _)
Join(ss, sep) ==
    IF ss = <<>> THEN <<>>
    ELSE IF Len(ss) = 1 THEN ss[1]
    ELSE ss[1] \o sep \o Join(Tail(ss), sep)

RECURSIVE TrimStart(_)
TrimStart(t) ==
    IF t # <<>> /\ IsWhitespace(Head(t)) THEN TrimStart(Tail(t)) ELSE t

RECURSIVE TrimEnd(_)
TrimEnd(t) ==
    IF t # <<>> /\ IsWhitespace(t[Len(t)])
    THEN TrimEnd(SubSeq(t, 1, Len(t) - 1))
    ELSE t

\* str::trim, lib.rs:100.
Trim(t) == TrimEnd(TrimStart(t))

\* What YamlLoader::load_from_str can answer: at least one document, an
\* empty vector of documents, or Err(ScanError).
YamlOutcomes == {"docs", "nodocs", "error"}

\* YamlLoader::load_from_str(front_matter_text), lib.rs:101.  The parser is
\* an external crate: which of its answers it gives for a text is fixed by
\* `yaml`, and a parsed document is the term [yamlOf |-> the text].
YamlLoad(s) ==
    IF yaml[s] = "error" THEN [ok |-> FALSE, docs |-> <<>>]
    ELSE IF yaml[s] = "nodocs" THEN [ok |-> TRUE, docs |-> <<>>]
    ELSE [ok |-> TRUE, docs |-> <<[yamlOf |-> s]>>]

YamlNull == [yamlOf |-> "Null"]

\* Mutant: the test of splits[0] == "" is left out.
HasFrontMatter_noLead(splits) == Len(splits) >= 3

\* The front-matter condition, lib.rs:98.
HasFrontMatter(splits) == Len(splits) >= 3 /\ splits[1] = <<>>

\* Mutant: only the segment after the second delimiter is kept.
FrontMatterBody_firstOnly(splits) == Trim(splits[3]) \o <<"\n">>

\* lib.rs:100.
FrontMatterBody(splits) ==
    Trim(Join(SubSeq(splits, 3, Len(splits)), Delim)) \o <<"\n">>

\* Document::from_str.  The call either returns a Document or panics: at
\* .unwrap() on Err, or at [0] on an empty vector (lib.rs:101).
from_str(path, t) ==
    LET splits == Split(t) IN
    IF HasFrontMatter(splits)
    THEN LET front_matter_text == splits[2]
             body == FrontMatterBody(splits)
             ld == YamlLoad(front_matter_text)
         IN  IF ~ld.ok THEN [kind |-> "panic", at |-> "unwrap"]
             ELSE IF Len(ld.docs) = 0 THEN [kind |-> "panic", at |-> "index"]
             ELSE [kind |-> "doc", metadata |-> ld.docs[1], body |-> body,
                   path |-> path]
    ELSE [kind |-> "doc", metadata |-> YamlNull, body |-> t, path |-> path]

\* The front-matter texts the parser is asked about for the texts ts.
FrontMatterTexts(ts) ==
    {Split(t)[2] : t \in {u \in ts : HasFrontMatter(Split(u))}}

-----------------------------------------------------------------------------
(* Document::from_str applied to bounded texts *)

Tokens == {Delim, <<"-">>, <<"\n">>, <<" ">>, <<"a">>}

TokenSeqs == UNION {[1..n -> Tokens] : n \in 0..MaxTokens}

Texts == {Concat(ts) : ts \in TokenSeqs}

RelPath(comps) == [abs |-> FALSE, comps |-> comps]

NoResult == [kind |-> "none", err |-> ""]
NotYet == [done |-> FALSE, docs |-> <<>>]
EmptyTree == [dirs |-> {}, files |-> <<>>]
NoLast == [built |-> FALSE, result |-> NoResult, input |-> EmptyTree,
           output |-> EmptyTree]

NoBuild ==
    /\ fs = EmptyTree
    /\ readdirRev = FALSE
    /\ plugins = <<>>
    /\ pc = "none"
    /\ entries = <<>>
    /\ documents = <<>>
    /\ pi = 0
    /\ result = NoResult
    /\ fs0 = fs
    /\ loaded = NotYet
    /\ handed = NotYet
    /\ calls = <<>>
    /\ last = NoLast

InitParse ==
    /\ text \in Texts
    /\ yaml \in [FrontMatterTexts({text}) -> YamlOutcomes]
    /\ parsed = [kind |-> "unparsed"]
    /\ NoBuild

Parse ==
    /\ parsed.kind = "unparsed"
    /\ parsed' = from_str(RelPath(<<"doc.txt">>), text)
    /\ UNCHANGED <<text, yaml, buildVars>>

NextParse == Parse

SpecParse == InitParse /\ [][NextParse]_vars

-----------------------------------------------------------------------------
(* Paths and the file system under Smithy::build *)

\* Smithy.input_path and Smithy.output_path (lib.rs:19-20), as locations.
InputPath == <<"in">>
OutputPath == <<"out">>

Root == <<>>

IsPrefix(p, l) == Len(p) <= Len(l) /\ SubSeq(l, 1, Len(p)) = p

\* Path::parent: the path without its final component.
Parent(comps) == SubSeq(comps, 1, Len(comps) - 1)

\* Path::file_name and Path::with_file_name (lib.rs:240-241).
FileName(path) == path.comps[Len(path.comps)]
WithFileName(path, n) == [path EXCEPT !.comps = Append(Parent(path.comps), n)]

\* PathBuf::join (lib.rs:62): an absolute argument replaces the base.
JoinPath(base, path) == IF path.abs THEN path.comps ELSE base \o path.comps

\* Path::strip_prefix (lib.rs:50).
StripPrefix(l, base) ==
    IF IsPrefix(base, l)
    THEN [ok |-> TRUE, path |-> RelPath(SubSeq(l, Len(base) + 1, Len(l)))]
    ELSE [ok |-> FALSE, path |-> RelPath(<<>>)]

\* The operating system's path resolution: every component but the last must
\* lead to a directory, and ".." leads to the parent.
RECURSIVE ResolveFrom(_, _, _)
ResolveFrom(dirs, cur, rest) ==
    IF rest = <<>> THEN [ok |-> TRUE, loc |-> cur]
    ELSE IF cur \notin dirs THEN [ok |-> FALSE, loc |-> cur]
    ELSE ResolveFrom(dirs,
                     IF Head(rest) = ".." THEN Parent(cur) ELSE Append(cur, Head(rest)),
                     Tail(rest))

Resolve(f, comps) == ResolveFrom(f.dirs, Root, comps)

IsDir(f, comps) == Resolve(f, comps).ok /\ Resolve(f, comps).loc \in f.dirs

\* mkdir as fs::create_dir_all uses it: an existing directory is no error
\* (std's "all of its parent components if they are missing").
Mkdir(f, comps) ==
    LET r == Resolve(f, comps) IN
    IF ~r.ok \/ r.loc \in DOMAIN f.files
    THEN [ok |-> FALSE, fs |-> f]
    ELSE [ok |-> TRUE, fs |-> [f EXCEPT !.dirs = @ \cup {r.loc}]]

\* fs::create_dir_all (lib.rs:64).  A failure keeps the directories made so far.
RECURSIVE CreateDirAll(_, _)
CreateDirAll(f, comps) ==
    IF comps = <<>> \/ IsDir(f, comps) THEN [ok |-> TRUE, fs |-> f]
    ELSE LET up == CreateDirAll(f, Parent(comps))
         IN  IF up.ok THEN Mkdir(up.fs, comps) ELSE up

\* File::create then Write::write (lib.rs:66-67): the file is created or
\* truncated and then holds the bytes written.
FileCreate(f, comps, bytes) ==
    LET r == Resolve(f, comps) IN
    IF ~r.ok \/ r.loc \in f.dirs
    THEN [ok |-> FALSE, fs |-> f]
    ELSE [ok |-> TRUE,
          fs |-> [f EXCEPT !.files =
                     [l \in DOMAIN @ \cup {r.loc} |->
                         IF l = r.loc THEN bytes ELSE @[l]]]]

\* The tree f without everything at or beneath loc.
Without(f, loc) ==
    [dirs  |-> {d \in f.dirs : ~IsPrefix(loc, d)},
     files |-> [l \in {x \in DOMAIN f.files : ~IsPrefix(loc, x)} |-> f.files[l]]]

\* Mutant: the output directory is left as it is.
RemoveDirAll_keep(f, loc) == [ok |-> loc \in f.dirs, fs |-> f]

\* fs::remove_dir_all (lib.rs:59): fails when loc is no directory.
RemoveDirAll(f, loc) ==
    IF loc \in f.dirs THEN [ok |-> TRUE, fs |-> Without(f, loc)]
    ELSE [ok |-> FALSE, fs |-> f]

\* The number of bytes one Write::write call may accept (lib.rs:67): all of
\* the buffer, or fewer; the call's return value is dropped.
WriteLens(bytes) == IF bytes = <<>> THEN {0} ELSE 1..Len(bytes)

\* The names a directory can hold, in the order the file system enumerates
\* them; readdirRev reverses it.
Names == <<"bar", "d", "foo", "in", "old", "out">>

Reverse(s) == [i \in 1..Len(s) |-> s[Len(s) + 1 - i]]

Exists(f, l) == l \in f.dirs \/ l \in DOMAIN f.files

\* WalkDir::new(root) (lib.rs:40): the entry itself, then, for a directory,
\* the walks of its children.
RECURSIVE WalkFrom(_, _, _)
WalkFrom(f, l, order) ==
    IF l \in DOMAIN f.files THEN <<[kind |-> "file", loc |-> l]>>
    ELSE <<[kind |-> "dir", loc |-> l]>>
         \o Concat([i \in 1..Len(order) |->
                      IF Exists(f, Append(l, order[i]))
                      THEN WalkFrom(f, Append(l, order[i]), order)
                      ELSE <<>>])

WalkDir(f, root) ==
    IF Exists(f, root)
    THEN WalkFrom(f, root, IF readdirRev THEN Reverse(Names) ELSE Names)
    ELSE <<[kind |-> "err", loc |-> root]>>

\* read_to_string (lib.rs:48) fails on bytes that are not UTF-8.
ValidUtf8(bytes) == "xFF" \notin Range(bytes)

-----------------------------------------------------------------------------
(* SmithyPlugin, lib.rs:73-85, and the plugins of the model *)

\* char::to_uppercase over the characters of the model (lib.rs:212).
ToUpper(c) == IF c = "a" THEN "A" ELSE IF c = "m" THEN "M" ELSE c

Uppercase(t) == [i \in 1..Len(t) |-> ToUpper(t[i])]

\* The plugins a caller registers.  Default overrides neither method; Shout
\* (lib.rs:209-215), FooBar (lib.rs:237-245), FailNested and Escape override
\* process_file; DropAll overrides process.
PluginKinds == {"Default", "Shout", "FooBar", "FailNested", "Escape", "DropAll"}

OverridesProcess(p) == p = "DropAll"

Ok(doc) == [ok |-> TRUE, doc |-> doc]
Err(doc) == [ok |-> FALSE, doc |-> doc]

\* process_file of plugin p; the trait's default (lib.rs:82-84) is Ok(file).
ProcessFile(p, doc) ==
    CASE p = "Shout" -> Ok([doc EXCEPT !.body = Uppercase(@)])
      [] p = "FooBar" ->
            IF FileName(doc.path) = "foo"
            THEN Ok([doc EXCEPT !.path = WithFileName(@, "bar")])
            ELSE Ok(doc)
      [] p = "FailNested" ->
            IF Len(doc.path.comps) > 1 THEN Err(doc) ELSE Ok(doc)
      [] p = "Escape" ->
            IF Len(doc.path.comps) = 1
            THEN Ok([doc EXCEPT !.path = [abs |-> TRUE, comps |-> InputPath \o @.comps]])
            ELSE Ok([doc EXCEPT !.path = [abs |-> FALSE, comps |-> <<"..">> \o @.comps]])
      [] OTHER -> Ok(doc)

\* The loop of the default process (lib.rs:75-79): new_files collects the
\* results, pf the documents process_file was called on.
RECURSIVE DefaultProcessFrom(_, _, _, _)
DefaultProcessFrom(p, files, new_files, pf) ==
    IF files = <<>> THEN [ok |-> TRUE, docs |-> new_files, pf |-> pf]
    ELSE LET r == ProcessFile(p, Head(files)) IN
         IF r.ok
         THEN DefaultProcessFrom(p, Tail(files), Append(new_files, r.doc),
                                 Append(pf, Head(files)))
         ELSE [ok |-> FALSE, docs |-> <<>>, pf |-> Append(pf, Head(files))]

\* Mutant: a failed document is skipped and the loop goes on.
RECURSIVE SkipFailedFrom(_, _, _, _)
SkipFailedFrom(p, files, new_files, pf) ==
    IF files = <<>> THEN [ok |-> TRUE, docs |-> new_files, pf |-> pf]
    ELSE LET r == ProcessFile(p, Head(files)) IN
         SkipFailedFrom(p, Tail(files),
                        IF r.ok THEN Append(new_files, r.doc) ELSE new_files,
                        Append(pf, Head(files)))

DefaultProcess_skipFailed(p, files) == SkipFailedFrom(p, files, <<>>, <<>>)

\* SmithyPlugin::process, the default method (lib.rs:74-80).
DefaultProcess(p, files) == DefaultProcessFrom(p, files, <<>>, <<>>)

\* plugin.process(documents) (lib.rs:56), dispatched on the plugin.
Process(p, files) ==
    IF OverridesProcess(p)
    THEN [ok |-> TRUE, docs |-> <<>>, pf |-> <<>>]
    ELSE DefaultProcess(p, files)

-----------------------------------------------------------------------------
(* Smithy::builder, add_plugin and build, lib.rs:25-70 *)

\* The file contents of the model: no front matter; a front-matter block, a
\* blank line and a body, as in the tests ("m" is the front-matter text, and
\* `yaml` holds the parser's answer for it); bytes that are not UTF-8.
Plain == <<"a">>
WithFrontMatter == Delim \o <<"m", "\n">> \o Delim \o <<"\n", "a">>
NotUtf8 == <<"xFF">>
Stale == <<"o">>

InFoo == InputPath \o <<"foo">>
InBar == InputPath \o <<"bar">>
InDFoo == InputPath \o <<"d", "foo">>

\* What each input file may hold when it is there.
Allowed(l) ==
    IF l = InFoo THEN {Plain, WithFrontMatter}
    ELSE IF l = InBar THEN {Plain}
    ELSE {Plain, NotUtf8}

\* The input trees: a missing input directory, or a directory holding any of
\* the three files.
InputTrees ==
    {EmptyTree} \cup
    UNION {{[dirs  |-> {InputPath} \cup (IF InDFoo \in S THEN {Parent(InDFoo)} ELSE {}),
             files |-> c] : c \in {g \in [S -> {Plain, WithFrontMatter, NotUtf8}] :
                                      \A l \in S : g[l] \in Allowed(l)}}
           : S \in SUBSET {InFoo, InBar, InDFoo}}

\* The output directory before the first build: missing, empty, or holding
\* files of an earlier run.
OutputTrees ==
    {EmptyTree,
     [dirs |-> {OutputPath}, files |-> <<>>],
     [dirs  |-> {OutputPath, OutputPath \o <<"d">>},
      files |-> [l \in {OutputPath \o <<"foo">>, OutputPath \o <<"d", "old">>} |-> Stale]]}

Union(a, b) ==
    [dirs  |-> {Root} \cup a.dirs \cup b.dirs,
     files |-> [l \in DOMAIN a.files \cup DOMAIN b.files |->
                   IF l \in DOMAIN a.files THEN a.files[l] ELSE b.files[l]]]

\* The part of f at or beneath loc.
Tree(f, loc) ==
    [dirs  |-> {d \in f.dirs : IsPrefix(loc, d)},
     files |-> [l \in {x \in DOMAIN f.files : IsPrefix(loc, x)} |-> f.files[l]]]

FileTexts(f) == {f.files[l] : l \in DOMAIN f.files}

\* Smithy::builder (lib.rs:25-31): no plugins, nothing built.
Init ==
    /\ text = <<>>
    /\ parsed = [kind |-> "unparsed"]
    /\ \E i \in InputTrees, o \in OutputTrees : fs = Union(i, o)
    /\ yaml \in [FrontMatterTexts(FileTexts(fs)) -> YamlOutcomes]
    /\ readdirRev \in BOOLEAN
    /\ plugins = <<>>
    /\ pc = "idle"
    /\ entries = <<>>
    /\ documents = <<>>
    /\ pi = 0
    /\ result = NoResult
    /\ fs0 = fs
    /\ loaded = NotYet
    /\ handed = NotYet
    /\ calls = <<>>
    /\ last = NoLast

\* add_plugin (lib.rs:33-36), called on the builder before build().
AddPlugin(p) ==
    /\ pc = "idle"
    /\ result = NoResult
    /\ Len(plugins) < MaxPlugins
    /\ plugins' = Append(plugins, p)
    /\ UNCHANGED <<text, parsed, yaml, fs, readdirRev, pc, entries, documents,
                   pi, result, fs0, loaded, handed, calls, last>>

\* build() is called (lib.rs:38-40): `documents` is empty and the walk of the
\* input directory starts.
BuildStart ==
    /\ pc = "idle"
    /\ pc' = "load"
    /\ documents' = <<>>
    /\ entries' = WalkDir(fs, InputPath)
    /\ pi' = 0
    /\ result' = NoResult
    /\ fs0' = fs
    /\ loaded' = NotYet
    /\ handed' = NotYet
    /\ calls' = <<>>
    /\ text' = <<>>
    /\ parsed' = [kind |-> "unparsed"]
    /\ last' = IF result = NoResult THEN NoLast
               ELSE [built |-> TRUE, result |-> result,
                     input |-> Tree(fs0, InputPath),
                     output |-> Tree(fs, OutputPath)]
    /\ UNCHANGED <<yaml, fs, readdirRev, plugins>>

Failed(e) == [kind |-> "err", err |-> e]
Panicked(at) == [kind |-> "panic", err |-> at]
Succeeded == [kind |-> "ok", err |-> ""]

\* One pass of the loop body at lib.rs:41-52 on entry e: an error returned by
\* `?`, a panic inside from_str, a directory skipped, or a document pushed.
LoadStep(e) ==
    IF e.kind = "err" THEN [kind |-> "fail", err |-> "WalkDirError"]
    ELSE IF e.kind = "dir" THEN [kind |-> "skip"]
    ELSE IF ~ValidUtf8(fs.files[e.loc]) THEN [kind |-> "fail", err |-> "IOError"]
    ELSE LET rel == StripPrefix(e.loc, InputPath) IN
         IF ~rel.ok THEN [kind |-> "fail", err |-> "StripPrefixError"]
         ELSE [kind |-> "parsed", doc |-> from_str(rel.path, fs.files[e.loc])]

\* Mutant: the plugins are run last to first.
PluginIndex_rev == Len(plugins) - pi

\* The plugin the loop at lib.rs:55 is at.
PluginIndex == pi + 1

\* Where the loop at lib.rs:40 goes when the walk is over.
AfterLoad == IF plugins = <<>> THEN "clear" ELSE "plugins"

\* The loop at lib.rs:40-53, one entry.
LoadEntry ==
    /\ pc = "load"
    /\ entries # <<>>
    /\ LET e == Head(entries)
           step == LoadStep(e)
           panics == step.kind = "parsed" /\ step.doc.kind = "panic"
           docs == IF step.kind = "parsed" /\ ~panics
                   THEN Append(documents, step.doc) ELSE documents
           over == Tail(entries) = <<>>
       IN  /\ text' = IF step.kind = "parsed" THEN fs.files[e.loc] ELSE text
           /\ parsed' = IF step.kind = "parsed" THEN step.doc ELSE parsed
           /\ IF step.kind = "fail"
              THEN /\ pc' = "idle"
                   /\ result' = Failed(step.err)
                   /\ entries' = <<>>
                   /\ documents' = <<>>
                   /\ UNCHANGED <<loaded, handed>>
              ELSE IF panics
              THEN /\ pc' = "panicked"
                   /\ result' = Panicked(step.doc.at)
                   /\ entries' = <<>>
                   /\ documents' = <<>>
                   /\ UNCHANGED <<loaded, handed>>
              ELSE /\ entries' = Tail(entries)
                   /\ documents' = docs
                   /\ pc' = IF over THEN AfterLoad ELSE "load"
                   /\ loaded' = IF over THEN [done |-> TRUE, docs |-> docs] ELSE loaded
                   /\ handed' = IF over /\ AfterLoad = "clear"
                                THEN [done |-> TRUE, docs |-> docs] ELSE handed
                   /\ UNCHANGED result
    /\ UNCHANGED <<yaml, fs, readdirRev, plugins, pi, fs0, calls, last>>

\* The loop at lib.rs:55-57, one plugin: documents = plugin.process(documents)?
RunPlugin ==
    /\ pc = "plugins"
    /\ LET r == Process(plugins[PluginIndex], documents)
           over == pi + 1 = Len(plugins)
       IN  /\ calls' = Append(calls, [index |-> PluginIndex, input |-> documents,
                                      ret |-> r])
           /\ IF r.ok
              THEN /\ documents' = r.docs
                   /\ pi' = pi + 1
                   /\ pc' = IF over THEN "clear" ELSE "plugins"
                   /\ handed' = IF over THEN [done |-> TRUE, docs |-> r.docs] ELSE handed
                   /\ UNCHANGED result
              ELSE /\ pc' = "idle"
                   /\ result' = Failed("PluginError")
                   /\ documents' = <<>>
                   /\ UNCHANGED <<pi, handed>>
    /\ UNCHANGED <<text, parsed, yaml, fs, readdirRev, plugins, entries, fs0,
                   loaded, last>>

\* fs::remove_dir_all(&self.output_path)? (lib.rs:59); with nothing to write
\* build() then returns Ok(()) (lib.rs:69).
ClearOutput ==
    /\ pc = "clear"
    /\ LET r == RemoveDirAll(fs, OutputPath) IN
       IF r.ok
       THEN /\ fs' = r.fs
            /\ pc' = IF documents = <<>> THEN "idle" ELSE "write"
            /\ result' = IF documents = <<>> THEN Succeeded ELSE result
            /\ UNCHANGED documents
       ELSE /\ pc' = "idle"
            /\ result' = Failed("IOError")
            /\ documents' = <<>>
            /\ UNCHANGED fs
    /\ UNCHANGED <<text, parsed, yaml, readdirRev, plugins, entries, pi, fs0,
                   loaded, handed, calls, last>>

\* The loop at lib.rs:61-68, one document; after the last one build()
\* returns Ok(()) (lib.rs:69).
WriteDoc ==
    /\ pc = "write"
    /\ documents # <<>>
    /\ LET doc == Head(documents)
           output_file_path == JoinPath(OutputPath, doc.path)
           made == IF output_file_path = <<>> THEN [ok |-> TRUE, fs |-> fs]
                   ELSE CreateDirAll(fs, Parent(output_file_path))
       IN  \E n \in WriteLens(doc.body) :
             LET out == FileCreate(made.fs, output_file_path, SubSeq(doc.body, 1, n))
             IN  IF made.ok /\ out.ok
                 THEN /\ fs' = out.fs
                      /\ documents' = Tail(documents)
                      /\ pc' = IF Tail(documents) = <<>> THEN "idle" ELSE "write"
                      /\ result' = IF Tail(documents) = <<>> THEN Succeeded ELSE result
                 ELSE /\ fs' = made.fs
                      /\ pc' = "idle"
                      /\ result' = Failed("IOError")
                      /\ documents' = <<>>
    /\ UNCHANGED <<text, parsed, yaml, readdirRev, plugins, entries, pi, fs0,
                   loaded, handed, calls, last>>

Next ==
    \/ \E p \in PluginKinds : AddPlugin(p)
    \/ BuildStart
    \/ LoadEntry
    \/ RunPlugin
    \/ ClearOutput
    \/ WriteDoc

Spec == Init /\ [][Next]_vars

-----------------------------------------------------------------------------
(* Claims about Document::from_str, stated over the delimiter occurrences *)

Min(S) == CHOOSE x \in S : \A y \in S : x <= y
Max(S) == CHOOSE x \in S : \A y \in S : x >= y

\* The indices at which the delimiter occurs in t.
Occ(t) == {i \in 1..Len(t) : MatchAt(t, i)}

SecondOcc(t) == Min(Occ(t) \ {1})

\* The text between the first and the second delimiter occurrence.
BetweenFirstTwo(t) == SubSeq(t, Len(Delim) + 1, SecondOcc(t) - 1)

\* All the text after the second delimiter occurrence.
AfterSecond(t) == SubSeq(t, SecondOcc(t) + Len(Delim), Len(t))

\* t without its leading and trailing whitespace.
Stripped(t) ==
    LET N == {i \in 1..Len(t) : ~IsWhitespace(t[i])}
    IN  IF N = {} THEN <<>> ELSE SubSeq(t, Min(N), Max(N))

TwoDelims(t) == MatchAt(t, 1) /\ Cardinality(Occ(t)) >= 2

Parseable(s) == s \in DOMAIN yaml => yaml[s] = "docs"

\* C5: a text that begins with the delimiter and holds at least two of them,
\* with a parseable first segment, yields metadata = the parse of the text
\* between the first two delimiters and body = everything after the second
\* delimiter (later delimiters in place), stripped, plus one "\n".
C5_FrontMatterSplit ==
    (parsed.kind # "unparsed" /\ TwoDelims(text) /\ Parseable(BetweenFirstTwo(text)))
    => /\ parsed.kind = "doc"
       /\ parsed.metadata = [yamlOf |-> BetweenFirstTwo(text)]
       /\ parsed.body = Stripped(AfterSecond(text)) \o <<"\n">>

\* A front-matter text with a third delimiter inside the body, parsed.
C5_Witness ==
    /\ parsed.kind = "doc"
    /\ TwoDelims(text)
    /\ Cardinality(Occ(text)) >= 3
    /\ IsWhitespace(AfterSecond(text)[1])
    /\ Len(parsed.body) > Len(Delim) + 1

\* C6: a text that does not begin with the delimiter, or begins with it but
\* holds fewer than two delimiters, yields null metadata and the text itself
\* as body.
C6_NoFrontMatter ==
    (parsed.kind # "unparsed" /\ ~TwoDelims(text))
    => /\ parsed.kind = "doc"
       /\ parsed.metadata = YamlNull
       /\ parsed.body = text

\* Two delimiters, none of them leading: parsed as body only.
C6_Witness ==
    /\ parsed.kind = "doc"
    /\ ~MatchAt(text, 1)
    /\ Cardinality(Occ(text)) >= 2
    /\ parsed.body = text

-----------------------------------------------------------------------------
(* Claims about Smithy::build *)

\* build() is over: it returned, or it panicked.
Ended == pc \in {"idle", "panicked"} /\ result # NoResult

BuiltOk == pc = "idle" /\ result = Succeeded

UnderOutput(f) == {l \in DOMAIN f.files : IsPrefix(OutputPath, l)}

\* The documents of the final collection the loop at lib.rs:61 is done with.
Written == 1..(Len(handed.docs) - Len(documents))

\* The file a document is written to.
Target(doc) == Resolve(fs, JoinPath(OutputPath, doc.path)).loc

\* The directories create_dir_all visits for a document.
Ancestors(doc) ==
    LET parent == Parent(JoinPath(OutputPath, doc.path))
    IN  {Resolve(fs, SubSeq(parent, 1, k)).loc : k \in 0..Len(parent)}

\* C1: the plugins are called once each, in registration order; the first
\* receives the Loader's collection, each later one exactly what the one
\* before it returned, and the write stage receives what the last returned
\* (the Loader's collection when no plugin is registered).
C1_PluginFold ==
    /\ Len(calls) <= Len(plugins)
    /\ \A i \in 1..Len(calls) :
          /\ calls[i].index = i
          /\ loaded.done
          /\ calls[i].input = IF i = 1 THEN loaded.docs ELSE calls[i - 1].ret.docs
          /\ i > 1 => calls[i - 1].ret.ok
    /\ (pc \in {"clear", "write"} \/ BuiltOk) => handed.done
    /\ handed.done =>
          /\ loaded.done
          /\ Len(calls) = Len(plugins)
          /\ handed.docs = IF plugins = <<>> THEN loaded.docs
                           ELSE calls[Len(plugins)].ret.docs
    /\ pc = "clear" => documents = handed.docs

\* A build through two plugins that each changed the collection.
C1_Witness ==
    /\ BuiltOk
    /\ Len(plugins) >= 2
    /\ loaded.docs # <<>>
    /\ calls[1].ret.docs # loaded.docs
    /\ handed.docs # calls[1].ret.docs

LoaderFailed == Ended /\ ~loaded.done

PluginFailed == Ended /\ calls # <<>> /\ ~calls[Len(calls)].ret.ok

\* C2: when the Loader fails on an entry or a plugin's process returns an
\* error, build() returns an error, no later plugin was called, the output
\* directory is as it was before the build, and the write stage received no
\* collection.
C2_FailFast ==
    (LoaderFailed \/ PluginFailed)
    => /\ result.kind = "err"
       /\ LoaderFailed => calls = <<>>
       /\ \A i \in 1..(Len(calls) - 1) : calls[i].ret.ok
       /\ Tree(fs, OutputPath) = Tree(fs0, OutputPath)
       /\ ~handed.done

\* C3: once the write loop runs, and after a successful build, every file
\* and directory beneath the output root was made for a document of the
\* final collection already written; nothing older is left.
C3_OutputCleared ==
    (pc = "write" \/ BuiltOk)
    => /\ \A l \in UnderOutput(fs) :
             \E i \in Written : Target(handed.docs[i]) = l
       /\ \A d \in Tree(fs, OutputPath).dirs :
             \E i \in Written : d \in Ancestors(handed.docs[i])

\* A successful build of an empty collection over an output directory that
\* held files.
C3_Witness ==
    /\ BuiltOk
    /\ handed.docs = <<>>
    /\ UnderOutput(fs0) # {}

\* C4: when from_str meets a front-matter block the parser rejects, or for
\* which it yields no document, build() returns a MetadataParseError.
C4_MetadataParseError ==
    (Ended /\ TwoDelims(text) /\ yaml[BetweenFirstTwo(text)] # "docs")
    => result = Failed("MetadataParseError")

\* C7: a call of the default process returns the process_file results in
\* input order when all succeed; on the first failure, at document k, it
\* returns the error and no collection, and process_file was called on the
\* first k documents only.  With neither method overridden the collection
\* comes back unchanged.
C7_DefaultProcess ==
    \A i \in 1..Len(calls) :
       LET c == calls[i]
           p == plugins[c.index]
           bad == {k \in 1..Len(c.input) : ~ProcessFile(p, c.input[k]).ok}
       IN  ~OverridesProcess(p)
           => /\ IF bad = {}
                 THEN /\ c.ret.ok
                      /\ Len(c.ret.docs) = Len(c.input)
                      /\ \A k \in 1..Len(c.input) :
                            c.ret.docs[k] = ProcessFile(p, c.input[k]).doc
                      /\ c.ret.pf = c.input
                 ELSE /\ ~c.ret.ok
                      /\ c.ret.docs = <<>>
                      /\ c.ret.pf = SubSeq(c.input, 1, Min(bad))
              /\ p = "Default" => c.ret.ok /\ c.ret.docs = c.input

\* A default process that failed on its second document of three.
C7_Witness ==
    \E i \in 1..Len(calls) :
       /\ ~OverridesProcess(plugins[calls[i].index])
       /\ ~calls[i].ret.ok
       /\ Len(calls[i].ret.pf) = 2
       /\ Len(calls[i].input) = 3

\* The documents of the final collection with the relative path comps.
WithPath(comps) == {i \in 1..Len(handed.docs) : handed.docs[i].path.comps = comps}

\* C8: after a successful build the files beneath the output root are
\* exactly the paths of the final collection, each holding the whole body of
\* the last document with that path.
C8_OutputPlacement ==
    BuiltOk
    => /\ {SubSeq(l, Len(OutputPath) + 1, Len(l)) : l \in UnderOutput(fs)}
             = {handed.docs[i].path.comps : i \in 1..Len(handed.docs)}
       /\ \A l \in UnderOutput(fs) :
             LET W == WithPath(SubSeq(l, Len(OutputPath) + 1, Len(l)))
             IN  W # {} => fs.files[l] = handed.docs[Max(W)].body

\* C9: nothing outside the output root is created or changed by build().
C9_WritesConfined == Without(fs, OutputPath) = Without(fs0, OutputPath)

\* C10: after a successful build the output directory exists, and a second
\* build over the same input succeeds and leaves the same output.
C10_Repeatable ==
    /\ BuiltOk => OutputPath \in fs.dirs
    /\ (Ended /\ last.built /\ last.result = Succeeded
           /\ Tree(fs0, InputPath) = last.input)
       => (result = Succeeded /\ Tree(fs, OutputPath) = last.output)

=============================================================================
